---- MODULE Spec2Model ----
(***************************************************************************)
(* Model of the ClassAnnotation module (ClassAnnotation.py and             *)
(* ClassAnnotationLib/ClassAnnotationUtils.py): the widget state, the CSV  *)
(* ledger classification_results.csv, the class-partitioned output folders *)
(* and the widget handlers that the host's event loop calls one at a time. *)
(*                                                                         *)
(* A handler is an operator from a state record to a state record; the     *)
(* calls it makes are operators it composes, in the order of the code.  A  *)
(* Python exception is the field exc: every step passes the state through  *)
(* unchanged while exc is set, until a try/except of the code or the end   *)
(* of the slot clears it.  An exception that leaves a slot is recorded in  *)
(* the field escaped.                                                      *)
(*                                                                         *)
(* Names are sequences of tokens (single characters, an extension being    *)
(* one token), so that prefix tests, split("_") and sorting are computed.  *)
(***************************************************************************)
EXTENDS Integers, Sequences, FiniteSets, TLC

\* ------------------------------------------------------------------------
\* Bounds of the model
\* ------------------------------------------------------------------------

\* the modelled user clicks the first class button and this one
MaxClickLabel == 2

\* largest value the modelled user types into classCountInput
MaxCountInput == 2

\* the modelled user clicks a class button only while its LCD shows less
MaxLcd == 3

\* the modelled user changes between standard and advanced mode at most this often
MaxModeChanges == 2

\* ------------------------------------------------------------------------
\* Program constants
\* ------------------------------------------------------------------------

SUPPORTED_FORMATS == {".nrrd", ".nii", ".nii.gz", ".dcm", ".DCM", ".mha"}

STANDARD_MODE == "standard"

ADVANCED_MODE == "advanced"

OUTPUT_FOLDER == "output"

\* the header row saveClassificationData writes
CSV_HEADER == <<"Patient ID", "Class", "Hash">>

\* Python's None as a classification label
None == -1

\* the label "DUPLICATE" (labels are integers in the model: a class is >= 0)
DUPLICATE == -2

\* the smallest class count onClassCountChanged accepts
minRequiredClassesDefault == 2

\* the class count onLoadDatasetClicked sets for an unclassified dataset
defaultNumClassesFloor == 5

\* numCasesPerClass after construction and after an invalid input
defaultNumCases == 5

\* the value of the QSpinBox classCountInput before the first dataset is loaded
InitClassCount == 0

\* ------------------------------------------------------------------------
\* Text of a Class cell of the ledger
\* ------------------------------------------------------------------------

DigitStr == <<"0", "1", "2", "3", "4", "5", "6", "7", "8", "9">>

\* str.isdigit() of a Class cell
isdigit(cell) == \E i \in 1..Len(DigitStr) : DigitStr[i] = cell

\* int() of a Class cell that isdigit()
int(cell) == (CHOOSE i \in 1..Len(DigitStr) : DigitStr[i] = cell) - 1

\* the cell csv.writer writes for a label (line 1285)
ClassCell(label) ==
    IF label = None THEN ""
    ELSE IF label = DUPLICATE THEN "DUPLICATE"
    ELSE DigitStr[label + 1]

\* ------------------------------------------------------------------------
\* Sequences and names
\* ------------------------------------------------------------------------

Range(sq) == {sq[i] : i \in 1..Len(sq)}

Max2(a, b) == IF a >= b THEN a ELSE b

Min2(a, b) == IF a <= b THEN a ELSE b

\* code-point order of the tokens names are made of
TokRank(t) ==
    CASE t = ".nii" -> 1
      [] t = ".txt" -> 1
      [] t = "0" -> 2
      [] t = "1" -> 3
      [] t = "_" -> 4
      [] t = "a" -> 5
      [] t = "b" -> 6
      [] t = "c" -> 7
      [] t = "i" -> 8
      [] t = "m" -> 9
      [] t = "p" -> 10
      [] t = "q" -> 11
      [] OTHER -> 12

RECURSIVE StrLess(_, _)
\* Python's < on two str values
StrLess(x, y) ==
    IF x = <<>> THEN y # <<>>
    ELSE IF y = <<>> THEN FALSE
    ELSE IF TokRank(Head(x)) < TokRank(Head(y)) THEN TRUE
    ELSE IF TokRank(Head(x)) > TokRank(Head(y)) THEN FALSE
    ELSE StrLess(Tail(x), Tail(y))

\* str.startswith
startswith(x, prefix) ==
    /\ Len(prefix) <= Len(x)
    /\ SubSeq(x, 1, Len(prefix)) = prefix

RECURSIVE splitFirst(_)
\* fileName.split("_")[0]
splitFirst(x) ==
    IF x = <<>> THEN <<>>
    ELSE IF Head(x) = "_" THEN <<>>
    ELSE <<Head(x)>> \o splitFirst(Tail(x))

RECURSIVE SortedSeqOf(_)
\* sorted() of a set of str
SortedSeqOf(S) ==
    IF S = {} THEN <<>>
    ELSE LET m == CHOOSE x \in S : \A y \in S : x = y \/ StrLess(x, y)
         IN  <<m>> \o SortedSeqOf(S \ {m})

RECURSIVE Filter(_, _)
\* the members of sq that are in the set keep, in order
Filter(sq, keep) ==
    IF sq = <<>> THEN <<>>
    ELSE IF Head(sq) \in keep THEN <<Head(sq)>> \o Filter(Tail(sq), keep)
    ELSE Filter(Tail(sq), keep)

\* ------------------------------------------------------------------------
\* The dataset folders on disk (inputs of the module, never written by it)
\* ------------------------------------------------------------------------

File(name, content) == [name |-> name, content |-> content, readable |-> TRUE]

\* one folder per patient; b and c hold the same image
DatasetDH ==
    [top  |-> <<>>,
     dirs |-> << [name |-> <<"a">>, files |-> <<File(<<"i", ".nii">>, "y")>>],
                 [name |-> <<"b">>, files |-> <<File(<<"i", ".nii">>, "x")>>],
                 [name |-> <<"c">>, files |-> <<File(<<"i", ".nii">>, "x")>>] >>]

\* one folder per patient; both hold the same image
DatasetDD ==
    [top  |-> <<>>,
     dirs |-> << [name |-> <<"a">>, files |-> <<File(<<"i", ".nii">>, "x")>>],
                 [name |-> <<"b">>, files |-> <<File(<<"i", ".nii">>, "x")>>] >>]

\* image files at top level and in a patient folder
DatasetDM ==
    [top  |-> <<File(<<"q", "_", "i", ".nii">>, "z")>>,
     dirs |-> << [name |-> <<"m">>, files |-> <<File(<<"i", ".nii">>, "w")>>] >>]

\* flat directory of prefixed file names
DatasetDF ==
    [top  |-> <<File(<<"p", "1", "_", "i", ".nii">>, "u"),
                File(<<"p", "1", "0", "_", "i", ".nii">>, "v")>>,
     dirs |-> <<>>]

\* one folder per patient; the folder c holds no image
DatasetDE ==
    [top  |-> <<>>,
     dirs |-> << [name |-> <<"a">>, files |-> <<File(<<"i", ".nii">>, "y")>>],
                 [name |-> <<"b">>, files |-> <<File(<<"i", ".nii">>, "x")>>],
                 [name |-> <<"c">>, files |-> <<File(<<"i", ".txt">>, "t")>>] >>]

DatasetPaths == {"DH", "DD", "DM", "DF", "DE"}

\* the folders the modelled user picks as output folder
OutputPaths == {"O"}

\* the folders that can hold an output folder
Bases == DatasetPaths \cup OutputPaths

Disk(path) ==
    CASE path = "DH" -> DatasetDH
      [] path = "DD" -> DatasetDD
      [] path = "DM" -> DatasetDM
      [] path = "DF" -> DatasetDF
      [] path = "DE" -> DatasetDE
      [] OTHER -> [top |-> <<>>, dirs |-> <<>>]

\* "output" in root, for the roots os.walk visits below a dataset folder
\* other than its own output folder
PathHasOutput(path) == FALSE

\* f.endswith(tuple(SUPPORTED_FORMATS))
isSupported(f) == f.name[Len(f.name)] \in SUPPORTED_FORMATS

\* a full path: the folder of the file (<<>> for the dataset folder) and its name
PathOf(dir, f) == [dir |-> dir, name |-> f.name, content |-> f.content, readable |-> f.readable]

\* ------------------------------------------------------------------------
\* ClassAnnotationLogic: dataset shape
\* ------------------------------------------------------------------------

isFlatDataset(datasetPath) ==
    \E i \in 1..Len(Disk(datasetPath).top) : isSupported(Disk(datasetPath).top[i])

isHierarchicalDataset(datasetPath) ==
    \E i \in 1..Len(Disk(datasetPath).dirs) :
        \E j \in 1..Len(Disk(datasetPath).dirs[i].files) :
            isSupported(Disk(datasetPath).dirs[i].files[j])

getAllPatientIDs(datasetPath) ==
    IF isHierarchicalDataset(datasetPath)
    THEN SortedSeqOf({Disk(datasetPath).dirs[i].name : i \in 1..Len(Disk(datasetPath).dirs)})
    ELSE IF isFlatDataset(datasetPath)
    THEN SortedSeqOf({splitFirst(Disk(datasetPath).top[i].name) : i \in 1..Len(Disk(datasetPath).top)})
    ELSE <<>>

RECURSIVE SelectFiles(_, _, _, _)
\* the files of the list fs (in folder dir) whose name is in wanted, as paths, in order
SelectFiles(fs, dir, wanted, i) ==
    IF i > Len(fs) THEN <<>>
    ELSE IF fs[i].name \in wanted
    THEN <<PathOf(dir, fs[i])>> \o SelectFiles(fs, dir, wanted, i + 1)
    ELSE SelectFiles(fs, dir, wanted, i + 1)

RECURSIVE FilesOfDirs(_, _, _)
FilesOfDirs(dirs, patientID, i) ==
    IF i > Len(dirs) THEN <<>>
    ELSE IF dirs[i].name = patientID
    THEN SelectFiles(dirs[i].files, dirs[i].name, {f.name : f \in Range(dirs[i].files)}, 1)
         \o FilesOfDirs(dirs, patientID, i + 1)
    ELSE FilesOfDirs(dirs, patientID, i + 1)

getPatientFilesForReview(datasetPath, patientID, isHierarchical) ==
    LET d == Disk(datasetPath)
    IN  IF isHierarchical
        THEN IF \E i \in 1..Len(d.dirs) : d.dirs[i].name = patientID
             THEN LET k == CHOOSE i \in 1..Len(d.dirs) : d.dirs[i].name = patientID
                  IN  SelectFiles(d.dirs[k].files, patientID,
                                  {f.name : f \in {g \in Range(d.dirs[k].files) : isSupported(g)}}, 1)
             ELSE <<>>
        ELSE SelectFiles(d.top, <<>>,
                         {f.name : f \in {g \in Range(d.top) :
                                            startswith(g.name, patientID) /\ isSupported(g)}}, 1)

\* ------------------------------------------------------------------------
\* ClassAnnotationUtils
\* ------------------------------------------------------------------------

\* os.path.splitext(file)[0]
baseName(name) ==
    IF Len(name) > 0 /\ TokRank(name[Len(name)]) = 1 /\ Len(name) > 1
    THEN SubSeq(name, 1, Len(name) - 1)
    ELSE name

RECURSIVE WalkDirsFlat(_, _, _)
\* the files below the patient folders whose base name starts with patientID
WalkDirsFlat(dirs, patientID, i) ==
    IF i > Len(dirs) THEN <<>>
    ELSE SelectFiles(dirs[i].files, dirs[i].name,
                     {f.name : f \in {g \in Range(dirs[i].files) :
                                        startswith(baseName(g.name), patientID)}}, 1)
         \o WalkDirsFlat(dirs, patientID, i + 1)

findOriginalFile(datasetPath, patientID, isHierarchical) ==
    LET d == Disk(datasetPath)
    IN  IF PathHasOutput(datasetPath) THEN <<>>
        ELSE IF isHierarchical
        THEN FilesOfDirs(d.dirs, patientID, 1)
        ELSE SelectFiles(d.top, <<>>,
                         {f.name : f \in {g \in Range(d.top) :
                                            startswith(baseName(g.name), patientID)}}, 1)
             \o WalkDirsFlat(d.dirs, patientID, 1)

RECURSIVE hashList(_)
\* the hashes of the files sitk reads, in order (hash_volume of a file is its content)
hashList(fileList) ==
    IF fileList = <<>> THEN <<>>
    ELSE IF Head(fileList).readable
    THEN <<Head(fileList).content>> \o hashList(Tail(fileList))
    ELSE hashList(Tail(fileList))

\* a one-element list: <<>> is the empty string, else the combined hash
compute_patient_hashes(fileList) == <<hashList(fileList)>>

\* "|".join(sorted(hashes)) of a one-element list
JoinHashes(hashes) == hashes[1]

\* ------------------------------------------------------------------------
\* classificationData: a dict in insertion order, as a sequence of items
\* ------------------------------------------------------------------------

Item(pid, label) == [pid |-> pid, label |-> label]

keys(d) == {d[i].pid : i \in 1..Len(d)}

values(d) == {d[i].label : i \in 1..Len(d)}

\* d.get(pid)
get(d, pid) ==
    IF pid \in keys(d)
    THEN d[CHOOSE i \in 1..Len(d) : d[i].pid = pid].label
    ELSE None

\* a faulty d[pid] = label that keeps the label of a key the dict already has
putIfAbsent(d, pid, label) ==
    IF pid \in keys(d) THEN d ELSE Append(d, Item(pid, label))

\* d[pid] = label
put(d, pid, label) ==
    IF pid \in keys(d)
    THEN [i \in 1..Len(d) |-> IF d[i].pid = pid THEN Item(pid, label) ELSE d[i]]
    ELSE Append(d, Item(pid, label))

RECURSIVE putAll(_, _)
\* d[pid] = label for the items of the list, in order
putAll(d, items) ==
    IF items = <<>> THEN d
    ELSE putAll(put(d, Head(items).pid, Head(items).label), Tail(items))

\* a class label: an int, neither None nor "DUPLICATE"
isClass(label) == label >= 0

\* ------------------------------------------------------------------------
\* The ledger file and the output folders
\* ------------------------------------------------------------------------

\* Python's None as outputPath (datasetPath is "" before the first dataset)
NonePath == "<None>"

NoFile == [exists |-> FALSE, header |-> <<>>, rows |-> <<>>]

Row(pid, cell, hash) == [pid |-> pid, cls |-> cell, hash |-> hash]

\* os.path.join(base, OUTPUT_FOLDER, "classification_results.csv")
CsvPath(base) == <<base, OUTPUT_FOLDER, "classification_results.csv">>

\* the ledger file a path names, NoFile when there is none
FileAt(s, path) ==
    IF path[1] \in Bases /\ path[2] = "output" /\ path[3] = "classification_results.csv"
    THEN s.ledger[path[1]]
    ELSE NoFile

\* the path saveClassificationData writes (lines 1260-1263)
saveCsvFilePath(mode, datasetPath, outputFolder) ==
    CsvPath(IF mode = "standard" THEN datasetPath ELSE outputFolder)

\* the path loadExistingCSV reads (lines 1332-1337)
loadExistingCsvFilePath(mode, datasetPath, outputPath) ==
    IF mode = "standard" THEN CsvPath(datasetPath) ELSE CsvPath(outputPath)

\* the path countPatientsPerClassFromCSV reads (lines 1376-1380)
countCsvFilePath(mode, datasetPath, outputPath) ==
    IF mode = STANDARD_MODE THEN CsvPath(datasetPath) ELSE CsvPath(outputPath)

\* a faulty path of loadHashesFromCSV that ignores the mode
hashesCsvPathOfDataset(mode, datasetPath, outputPath) ==
    <<datasetPath, "output", "classification_results.csv">>

\* the path loadHashesFromCSV reads (lines 1423-1428)
hashesCsvPath(mode, datasetPath, outputPath) ==
    IF mode = "standard" THEN <<datasetPath, "output", "classification_results.csv">>
    ELSE <<outputPath, "output", "classification_results.csv">>

\* os.path.join raises TypeError when its first component is None
joinRaises(path) == path[1] = NonePath

\* os.listdir(datasetPath) raises for the empty path
listdirRaises(datasetPath) == datasetPath \notin DatasetPaths

\* ------------------------------------------------------------------------
\* Exceptions and slots
\* ------------------------------------------------------------------------

\* raise
Raise(s) == [s EXCEPT !.exc = TRUE]

\* except Exception: the handler of a try block
Caught(s) == [s EXCEPT !.exc = FALSE]

\* the end of a slot the host called: an exception that is still set leaves it
Slot(s) == IF s.exc THEN [s EXCEPT !.exc = FALSE, !.escaped = TRUE] ELSE s

\* slicer.util.errorDisplay(text) and slicer.util.infoDisplay(text): the dialog
\* is shown and closed by the user before the handler goes on
show(s, text) == [s EXCEPT !.shown = @ \cup {text}]

\* ------------------------------------------------------------------------
\* ClassAnnotationLogic: reading the ledger
\* ------------------------------------------------------------------------

RECURSIVE rowsToItems(_)
\* the rows of the ledger as (patientID, classLabel) items (lines 1347-1359)
rowsToItems(rows) ==
    IF rows = <<>> THEN <<>>
    ELSE LET rawLabel == Head(rows).cls
             classLabel == IF isdigit(rawLabel) THEN int(rawLabel)
                           ELSE IF rawLabel = "DUPLICATE" THEN DUPLICATE
                           ELSE None
         IN  <<Item(Head(rows).pid, classLabel)>> \o rowsToItems(Tail(rows))

RECURSIVE addUnclassified(_, _)
\* lines 1366-1368
addUnclassified(d, allPatientIDs) ==
    IF allPatientIDs = <<>> THEN d
    ELSE addUnclassified(IF Head(allPatientIDs) \in keys(d) THEN d
                         ELSE Append(d, Item(Head(allPatientIDs), None)),
                         Tail(allPatientIDs))

\* loadExistingCSV raises: os.path.join on None, os.listdir on a missing folder
loadExistingCSVRaises(s) ==
    \/ joinRaises(loadExistingCsvFilePath(s.logicMode, s.datasetPath, s.outputPath))
    \/ listdirRaises(s.datasetPath)

\* the dict loadExistingCSV returns
loadExistingCSV(s) ==
    LET file == FileAt(s, loadExistingCsvFilePath(s.logicMode, s.datasetPath, s.outputPath))
    IN  addUnclassified(putAll(<<>>, rowsToItems(file.rows)), getAllPatientIDs(s.datasetPath))

countPatientsPerClassFromCSVRaises(s) ==
    joinRaises(countCsvFilePath(s.logicMode, s.datasetPath, s.outputPath))

\* the dict countPatientsPerClassFromCSV returns, as a function on its keys
countPatientsPerClassFromCSV(s) ==
    LET file == FileAt(s, countCsvFilePath(s.logicMode, s.datasetPath, s.outputPath))
        idx(c) == {i \in 1..Len(file.rows) : file.rows[i].cls = DigitStr[c + 1]}
        labels == {c \in 0..(Len(DigitStr) - 1) : idx(c) # {}}
    IN  [c \in labels |-> Cardinality(idx(c))]

loadHashesFromCSVRaises(s) ==
    joinRaises(hashesCsvPath(s.logicMode, s.datasetPath, s.outputPath))

RECURSIVE rowsToHashes(_)
rowsToHashes(rows) ==
    IF rows = <<>> THEN <<>>
    ELSE IF Head(rows).pid # <<>> /\ Head(rows).hash # <<>>
    THEN <<[pid |-> Head(rows).pid, hash |-> Head(rows).hash]>> \o rowsToHashes(Tail(rows))
    ELSE rowsToHashes(Tail(rows))

\* the dict loadHashesFromCSV returns, as the list of its items
loadHashesFromCSV(s) ==
    rowsToHashes(FileAt(s, hashesCsvPath(s.logicMode, s.datasetPath, s.outputPath)).rows)

\* ------------------------------------------------------------------------
\* ClassAnnotationUtils.movePatientIfReclassified and saveClassificationData
\* ------------------------------------------------------------------------

\* a patient folder output/class<cls>/<pid> and the names of the files in it
Folder(cls, pid, files) == [cls |-> cls, pid |-> pid, files |-> files]

\* os.path.exists(output/class<cls>/<pid>)
folderExists(F, cls, pid) == \E e \in F : e.cls = cls /\ e.pid = pid

folderAt(F, cls, pid) == CHOOSE e \in F : e.cls = cls /\ e.pid = pid

RECURSIVE moveLoop(_, _, _, _)
\* the loop of movePatientIfReclassified over the class folders listed at its
\* start; a class folder that its last patient leaves is removed with it
moveLoop(F, classFolders, patientID, newClass) ==
    IF classFolders = {} THEN F
    ELSE LET classFolder == CHOOSE c \in classFolders : \A k \in classFolders : c <= k
             rest == classFolders \ {classFolder}
         IN  IF folderExists(F, classFolder, patientID) /\ classFolder # newClass
             THEN LET src == folderAt(F, classFolder, patientID)
                  IN  IF folderExists(F, newClass, patientID)
                      \* shutil.move into an existing folder: src becomes a subfolder of it
                      THEN LET dst == folderAt(F, newClass, patientID)
                           IN  moveLoop((F \ {src, dst})
                                          \cup {Folder(newClass, patientID, dst.files \cup {patientID})},
                                        rest, patientID, newClass)
                      ELSE moveLoop((F \ {src}) \cup {Folder(newClass, patientID, src.files)},
                                    rest, patientID, newClass)
             ELSE moveLoop(F, rest, patientID, newClass)

movePatientIfReclassified(F, patientID, newClass) ==
    moveLoop(F, {e.cls : e \in F}, patientID, newClass)

\* a faulty hash column that is filled for every row
rowHashOfEveryRow(datasetPath, patientID, classLabel, isHierarchical) ==
    JoinHashes(compute_patient_hashes(findOriginalFile(datasetPath, patientID, isHierarchical)))

\* the hash saveClassificationData writes for a patient (lines 1274-1281)
rowHash(datasetPath, patientID, classLabel, isHierarchical) ==
    IF classLabel # None /\ classLabel # DUPLICATE
    THEN JoinHashes(compute_patient_hashes(findOriginalFile(datasetPath, patientID, isHierarchical)))
    ELSE <<>>

RECURSIVE ledgerRows(_, _, _, _)
\* the rows written for the patients in sortedIDs (lines 1273-1287)
ledgerRows(classificationData, sortedIDs, datasetPath, isHierarchical) ==
    IF sortedIDs = <<>> THEN <<>>
    ELSE LET patientID == Head(sortedIDs)
             classLabel == get(classificationData, patientID)
         IN  <<Row(patientID, ClassCell(classLabel),
                   rowHash(datasetPath, patientID, classLabel, isHierarchical))>>
             \o ledgerRows(classificationData, Tail(sortedIDs), datasetPath, isHierarchical)

\* a faulty loop that makes the patient folders and copies no file into them
makeFoldersOnly(F, items, datasetPath, isHierarchical) ==
    F \cup {Folder(items[i].label, items[i].pid, {}) :
               i \in {j \in 1..Len(items) :
                        /\ isClass(items[j].label)
                        /\ ~folderExists(F, items[j].label, items[j].pid)}}

RECURSIVE copyLoop(_, _, _, _)
\* the loop over classificationData.items() that fills the class folders
\* (lines 1289-1304)
copyLoop(F, items, datasetPath, isHierarchical) ==
    IF items = <<>> THEN F
    ELSE LET patientID == Head(items).pid
             classLabel == Head(items).label
         IN  IF classLabel # None /\ classLabel # DUPLICATE
             THEN LET F1 == movePatientIfReclassified(F, patientID, classLabel)
                      old == IF folderExists(F1, classLabel, patientID)
                             THEN folderAt(F1, classLabel, patientID)
                             ELSE Folder(classLabel, patientID, {})
                      originalFilePaths == findOriginalFile(datasetPath, patientID, isHierarchical)
                      new == Folder(classLabel, patientID,
                                    old.files \cup {f.name : f \in Range(originalFilePaths)})
                  IN  copyLoop((F1 \ {old}) \cup {new}, Tail(items), datasetPath, isHierarchical)
             ELSE copyLoop(F, Tail(items), datasetPath, isHierarchical)

\* saveClassificationData(self.datasetPath, self.classificationData, self.outputPath)
saveClassificationData(s) ==
    IF s.exc THEN s
    ELSE LET csvFilePath == saveCsvFilePath(s.logicMode, s.datasetPath, s.outputPath)
             base == csvFilePath[1]
         IN  IF joinRaises(csvFilePath) THEN Raise(s)
             \* inside the try: an exception is shown and swallowed
             ELSE IF listdirRaises(s.datasetPath) \/ base \notin Bases THEN s
             ELSE LET isHierarchical == isHierarchicalDataset(s.datasetPath)
                      rows == ledgerRows(s.classificationData,
                                         SortedSeqOf(keys(s.classificationData)),
                                         s.datasetPath, isHierarchical)
                  IN  [s EXCEPT
                         !.ledger[base] = [exists |-> TRUE, header |-> CSV_HEADER, rows |-> rows],
                         !.folders[base] = copyLoop(s.folders[base], s.classificationData,
                                                    s.datasetPath, isHierarchical),
                         !.saved = [ok |-> TRUE, base |-> base, dataset |-> s.datasetPath]]

\* ------------------------------------------------------------------------
\* ClassAnnotationWidget: helpers of the handlers
\* ------------------------------------------------------------------------

\* slicer.mrmlScene.Clear(0): the viewer shows no volume; self.loadedPatients
\* keeps its (stale) nodes
Clear(s) == IF s.exc THEN s ELSE [s EXCEPT !.sceneVolume = FALSE]

disableAllButtons(s, disable) ==
    IF s.exc THEN s
    ELSE [s EXCEPT !.buttonsEnabled = IF s.buttonsInDict THEN ~disable ELSE @,
                   !.reviewEnabled = ~disable,
                   !.uiEnabled = ~disable]

disableClassificationButtons(s, disable) ==
    IF s.exc THEN s
    ELSE [s EXCEPT !.buttonsEnabled = IF s.buttonsInDict THEN ~disable ELSE @]

\* sceneIsEmpty is "not self.loadedPatients"
updateTable(s) ==
    IF s.exc THEN s
    ELSE IF s.classificationData = <<>> THEN [s EXCEPT !.tableRows = {}]
    ELSE [s EXCEPT !.tableRows = keys(s.classificationData),
                   !.currentPatientID = IF ~s.loadedPatients THEN <<>> ELSE @]

resetModuleState(s) ==
    IF s.exc THEN s
    ELSE [s EXCEPT !.classificationData = <<>>,
                   !.buttonsInDict = FALSE,
                   !.classLCDs = <<>>,
                   !.loadedPatients = FALSE,
                   !.randomPatientsList = <<>>,
                   !.currentRandomPatientIndex = 0,
                   !.allPatientsClassified = FALSE,
                   !.manualReviewMode = FALSE,
                   !.inRandomView = FALSE,
                   !.currentPatientID = <<>>,
                   !.tableRows = {},
                   !.dropdown = {}]

syncLoadedPatientFromViewer(s) ==
    IF s.exc THEN s
    ELSE IF s.sceneVolume THEN [s EXCEPT !.loadedPatients = TRUE] ELSE s

\* self.currentPatientID = ""
clearCurrentPatientID(s) == IF s.exc THEN s ELSE [s EXCEPT !.currentPatientID = <<>>]

\* the LCDs of self.classLCDs show the counts of classCounters (lines 562-564, 784-786)
displayCounts(classLCDs, classCounters) ==
    [c \in DOMAIN classLCDs |-> IF c \in DOMAIN classCounters THEN classCounters[c] ELSE classLCDs[c]]

\* the loop of onLoadNextRandomPatient over the counts of the ledger (lines 783-786)
displayClassCounters(s) ==
    IF s.exc THEN s
    ELSE IF countPatientsPerClassFromCSVRaises(s) THEN Raise(s)
    ELSE [s EXCEPT !.classLCDs = displayCounts(@, countPatientsPerClassFromCSV(s))]

\* self.classLCDs after updateLCDCounters: an LCD for every class of classCounters
lcdsWithCounts(classLCDs, classCounters) ==
    [c \in (DOMAIN classLCDs) \cup (DOMAIN classCounters) |->
        IF c \in DOMAIN classCounters THEN classCounters[c] ELSE classLCDs[c]]

updateLCDCounters(s) ==
    IF s.exc THEN s
    ELSE IF countPatientsPerClassFromCSVRaises(s) THEN Raise(s)
    ELSE [s EXCEPT !.classLCDs = lcdsWithCounts(@, countPatientsPerClassFromCSV(s))]

\* the LCDs generateClassButtons creates for the classes 0..numClasses-1
newLCDs(numClasses, classCounters) ==
    [c \in 0..(numClasses - 1) |-> IF c \in DOMAIN classCounters THEN classCounters[c] ELSE 0]

\* clearLayout, classButtons.clear() and classLCDs.clear() come before the
\* ledger is read
generateClassButtons(s) ==
    IF s.exc THEN s
    ELSE IF countPatientsPerClassFromCSVRaises(s)
    THEN Raise([s EXCEPT !.layoutButtons = 0, !.buttonsInDict = FALSE, !.classLCDs = <<>>])
    ELSE [s EXCEPT !.layoutButtons = s.classCount,
                   !.buttonsInDict = TRUE,
                   !.buttonsEnabled = TRUE,
                   !.classLCDs = newLCDs(s.classCount, countPatientsPerClassFromCSV(s))]

\* max(existingClasses)
maxOf(existingClasses) == CHOOSE c \in existingClasses : \A k \in existingClasses : k <= c

\* onClassCountChanged with existingClasses, the values of classificationData
\* that are not None
onClassCountChangedWith(s, existingClasses) ==
    IF existingClasses # {}
    THEN \* max() of int and str, or "DUPLICATE" + 1: TypeError
         IF DUPLICATE \in existingClasses THEN Raise(s)
         ELSE IF s.classCount < Max2(maxOf(existingClasses) + 1, 2)
         THEN [s EXCEPT !.classCount = Max2(maxOf(existingClasses) + 1, 2)]
         ELSE s
    ELSE IF s.classCount < minRequiredClassesDefault
         \* the warning text reads maxClass, which is unbound: UnboundLocalError
         THEN Raise(s)
         ELSE s

\* the slot of classCountInput.valueChanged; the new value is already in classCount
onClassCountChanged(s) ==
    IF s.exc THEN s ELSE onClassCountChangedWith(s, values(s.classificationData) \ {None})

\* classCountInput.setValue(v), which emits valueChanged when the value changes
setClassCount(s, v) ==
    IF s.exc THEN s
    ELSE IF s.classCount = v THEN s
    ELSE Slot(onClassCountChanged([s EXCEPT !.classCount = v]))

\* the patients of a dict that have a class
classifiedIn(d) == {d[i].pid : i \in {j \in 1..Len(d) : isClass(d[j].label)}}

\* the dropdown lists the patients of the ledger whose label is neither None
\* nor "DUPLICATE"
populatePatientDropdown(s) ==
    IF s.exc THEN s
    ELSE IF loadExistingCSVRaises(s) THEN Raise([s EXCEPT !.dropdown = {}])
    ELSE [s EXCEPT !.dropdown = classifiedIn(loadExistingCSV(s))]

\* success iff sitk reads one of the files into a node
canLoad(fileList) ==
    \E i \in 1..Len(fileList) :
        /\ fileList[i].name[Len(fileList[i].name)] \in SUPPORTED_FORMATS \ {".dcm", ".DCM"}
        /\ fileList[i].readable

\* returns bool(self.loadedPatients), which is the field loadedPatients of the result
loadPatientImages(s, patientID, fileList) ==
    IF s.exc THEN s
    ELSE IF canLoad(fileList)
    THEN updateTable([s EXCEPT !.loadedPatients = TRUE, !.sceneVolume = TRUE,
                               !.currentPatientID = patientID])
    ELSE updateTable([s EXCEPT !.loadedPatients = FALSE, !.currentPatientID = <<>>])

isPatientDuplicate(patientHashesFromCSV, currentHashString) ==
    \E i \in 1..Len(patientHashesFromCSV) :
        /\ patientHashesFromCSV[i].hash # <<>>
        /\ currentHashString = patientHashesFromCSV[i].hash

markAsDuplicate(s, patientID) ==
    IF s.exc THEN s
    ELSE clearCurrentPatientID(updateTable(saveClassificationData(
             [s EXCEPT !.classificationData = put(@, patientID, DUPLICATE)])))

RECURSIVE unclassifiedOf(_)
unclassifiedOf(d) ==
    IF d = <<>> THEN <<>>
    ELSE IF Head(d).label = None THEN <<Head(d).pid>> \o unclassifiedOf(Tail(d))
    ELSE unclassifiedOf(Tail(d))

RECURSIVE loadNextLoop(_, _)

\* the end of an iteration of loadNextLoop: t is the state loadPatientImages left
loadNextLoopLoaded(t, patientID, unclassified) ==
    IF t.loadedPatients
    THEN disableAllButtons([t EXCEPT !.currentPatientID = patientID], FALSE)
    ELSE loadNextLoop([t EXCEPT !.currentPatientID = <<>>], Tail(unclassified))

\* an iteration of loadNextLoop for the patient with the files patientFiles
loadNextLoopPatient(s, patientID, patientFiles, unclassified) ==
    IF patientFiles = <<>> THEN loadNextLoop(s, Tail(unclassified))
    ELSE IF loadHashesFromCSVRaises(s) THEN Raise(s)
    ELSE IF isPatientDuplicate(loadHashesFromCSV(s),
                               JoinHashes(compute_patient_hashes(
                                   findOriginalFile(s.datasetPath, patientID, s.isHierarchical))))
    THEN loadNextLoop(markAsDuplicate(s, patientID), Tail(unclassified))
    ELSE loadNextLoopLoaded(loadPatientImages(s, patientID, patientFiles),
                            patientID, unclassified)

\* the loop of loadNextPatient over the list unclassified, and what follows it
loadNextLoop(s, unclassified) ==
    IF s.exc THEN s
    ELSE IF unclassified = <<>>
    THEN updateTable([show(Clear(s), "All patients classified!")
                         EXCEPT !.currentPatientID = <<>>])
    ELSE IF listdirRaises(s.datasetPath) THEN Raise(s)
    ELSE loadNextLoopPatient(s, Head(unclassified),
                             getPatientFilesForReview(s.datasetPath, Head(unclassified),
                                                      s.isHierarchical),
                             unclassified)

loadNextPatient(s) ==
    IF s.exc THEN s ELSE loadNextLoop(s, unclassifiedOf(s.classificationData))

\* ------------------------------------------------------------------------
\* Random review
\* ------------------------------------------------------------------------

\* int(numCasesText) succeeds
isIntText(text) == text \in {"5", "2", "1", "0", "-1"}

\* int(numCasesText)
intOfText(text) ==
    CASE text = "5" -> 5
      [] text = "2" -> 2
      [] text = "1" -> 1
      [] text = "0" -> 0
      [] text = "-1" -> 0 - 1

\* self.numCasesPerClass after the try block of startRandomCheck (lines 684-696)
numCasesPerClassOf(numCasesText) ==
    IF numCasesText = "" THEN 5
    ELSE IF isIntText(numCasesText) THEN intOfText(numCasesText)
    \* except (ValueError, TypeError)
    ELSE 5

\* the text of casesInput after the try block of startRandomCheck
casesInputOf(numCasesText) ==
    IF numCasesText = "" \/ isIntText(numCasesText) THEN numCasesText ELSE "5"

\* the classes of the dict in the order of their first patient
RECURSIVE classOrder(_, _)
classOrder(d, seen) ==
    IF d = <<>> THEN <<>>
    ELSE IF isClass(Head(d).label) /\ Head(d).label \notin seen
    THEN <<Head(d).label>> \o classOrder(Tail(d), seen \cup {Head(d).label})
    ELSE classOrder(Tail(d), seen)

\* a faulty sampling that takes every patient of every class
sampleEveryPatient(d, classes, numCasesPerClass, rnd) == classifiedIn(d)

RECURSIVE sampleByClass(_, _, _, _)
\* lines 711-715; random.sample takes the first numToSelect patients of the
\* class in the order rnd, a permutation of the patients
sampleByClass(d, classes, numCasesPerClass, rnd) ==
    IF classes = <<>> THEN {}
    ELSE LET patients == {d[i].pid : i \in {j \in 1..Len(d) : d[j].label = Head(classes)}}
             numToSelect == Min2(Cardinality(patients), numCasesPerClass)
             selectedPatients == Range(SubSeq(Filter(rnd, patients), 1, numToSelect))
         IN  selectedPatients \cup sampleByClass(d, Tail(classes), numCasesPerClass, rnd)

RECURSIVE onCheckToggled(_, _, _)
RECURSIVE updateButtonStates(_)
RECURSIVE setCheckedFalse(_)
RECURSIVE startRandomCheck(_, _)
RECURSIVE onLoadNextRandomPatient(_)

\* checkBox.setChecked(False): toggled is emitted when the box was checked
setCheckedFalse(s) ==
    IF s.exc THEN s
    ELSE IF s.checkBox THEN Slot(onCheckToggled([s EXCEPT !.checkBox = FALSE], FALSE, <<>>))
    ELSE s

\* the end of updateButtonStates (lines 357-358)
updateButtonStatesManualReview(s) ==
    IF s.exc THEN s
    ELSE IF s.manualReviewMode THEN setCheckedFalse(s) ELSE s

updateButtonStates(s) ==
    IF s.exc THEN s
    ELSE IF s.datasetPath = ""
    THEN [disableAllButtons([s EXCEPT !.allPatientsClassified = FALSE], TRUE)
             EXCEPT !.nextEnabled = FALSE]
    ELSE updateButtonStatesManualReview(
             [disableClassificationButtons(
                  disableAllButtons(
                      [s EXCEPT !.allPatientsClassified =
                                    None \notin values(s.classificationData)],
                      FALSE),
                  s.inRandomView)
                 EXCEPT !.reviewEnabled = ~s.inRandomView,
                        !.nextEnabled = (None \notin values(s.classificationData)) /\ s.checkBox])

\* lines 761-765 of onLoadNextRandomPatient
onLoadNextRandomPatientFiles(s, patientID, patientFiles) ==
    IF patientFiles # <<>>
    THEN loadPatientImages(Clear(s), patientID, patientFiles)
    ELSE s

\* lines 769-777 of onLoadNextRandomPatient: the end of the list
onLoadNextRandomPatientReviewed(s) ==
    IF s.exc THEN s
    ELSE IF s.currentRandomPatientIndex >= Len(s.randomPatientsList)
    THEN updateTable([setCheckedFalse(s) EXCEPT !.inRandomView = FALSE,
                                               !.randomPatientsList = <<>>,
                                               !.currentRandomPatientIndex = 0,
                                               !.currentPatientID = <<>>])
    ELSE s

\* lines 767-788 of onLoadNextRandomPatient
onLoadNextRandomPatientShown(s) ==
    IF s.exc THEN s
    ELSE updateButtonStates(displayClassCounters(onLoadNextRandomPatientReviewed(
             [s EXCEPT !.currentRandomPatientIndex = @ + 1])))

onLoadNextRandomPatient(s) ==
    IF s.exc THEN s
    ELSE IF s.randomPatientsList = <<>>
    THEN [s EXCEPT !.inRandomView = FALSE]
    ELSE IF s.currentRandomPatientIndex < Len(s.randomPatientsList)
    THEN onLoadNextRandomPatientShown(
             onLoadNextRandomPatientFiles(
                 s, s.randomPatientsList[s.currentRandomPatientIndex + 1],
                 getPatientFilesForReview(s.datasetPath,
                                          s.randomPatientsList[s.currentRandomPatientIndex + 1],
                                          s.isHierarchical)))
    ELSE updateButtonStates(s)

\* lines 677-682 and 721-724 of startRandomCheck: nothing to review
startRandomCheckNone(s) ==
    updateButtonStates([setCheckedFalse(s) EXCEPT !.inRandomView = FALSE])

\* lines 719-727 of startRandomCheck
startRandomCheckSelected(s) ==
    IF s.randomPatientsList = <<>>
    THEN startRandomCheckNone(s)
    ELSE onLoadNextRandomPatient(updateButtonStates(s))

\* lines 684-715 of startRandomCheck: s has numCasesPerClass set
startRandomCheckSample(s, classifiedPatients, rnd) ==
    \* random.sample raises ValueError for a negative sample size
    IF classOrder(classifiedPatients, {}) # <<>> /\ s.numCasesPerClass < 0 THEN Raise(s)
    ELSE startRandomCheckSelected(
             [s EXCEPT !.randomPatientsList =
                 Filter(rnd, sampleByClass(classifiedPatients,
                                           classOrder(classifiedPatients, {}),
                                           s.numCasesPerClass, rnd))])

\* startRandomCheck with the dict classifiedPatients of the ledger; rndUsed
\* tells whether rnd is an order of the classified patients
startRandomCheckWith(s, classifiedPatients, rnd) ==
    IF classifiedPatients = <<>> THEN startRandomCheckNone(s)
    ELSE startRandomCheckSample(
             [s EXCEPT !.numCasesPerClass = numCasesPerClassOf(s.casesInput),
                       !.casesInput = casesInputOf(@),
                       !.shown = IF s.casesInput = "" \/ isIntText(s.casesInput) THEN @
                                 ELSE @ \cup {"Invalid number of cases per class! Using default (5)"},
                       !.rndUsed = IF /\ classifiedIn(classifiedPatients) = Range(rnd)
                                      /\ Len(rnd) = Cardinality(classifiedIn(classifiedPatients))
                                   THEN "ok" ELSE "bad"],
             classifiedPatients, rnd)

startRandomCheck(s, rnd) ==
    IF s.exc THEN s
    ELSE IF loadExistingCSVRaises(s)
    THEN Raise([s EXCEPT !.randomPatientsList = <<>>,
                         !.currentRandomPatientIndex = 0,
                         !.inRandomView = TRUE])
    ELSE startRandomCheckWith([s EXCEPT !.randomPatientsList = <<>>,
                                        !.currentRandomPatientIndex = 0,
                                        !.inRandomView = TRUE],
                              loadExistingCSV(s), rnd)

\* lines 643-649 of onCheckToggled
onCheckToggledReview(s, rnd) ==
    IF s.allPatientsClassified
    THEN startRandomCheck([s EXCEPT !.nextEnabled = TRUE], rnd)
    ELSE [s EXCEPT !.nextEnabled = FALSE]

\* the slot of checkBox.toggled; the box already shows checked
onCheckToggled(s, checked, rnd) ==
    IF s.exc THEN s
    ELSE IF checked
    THEN IF loadExistingCSVRaises(s)
         THEN Raise([s EXCEPT !.manualReviewMode = FALSE,
                              !.reviewEnabled = FALSE,
                              !.tableSelectable = FALSE])
         ELSE updateButtonStates(onCheckToggledReview(
                  [s EXCEPT !.manualReviewMode = FALSE,
                            !.reviewEnabled = FALSE,
                            !.tableSelectable = FALSE,
                            !.classificationData = loadExistingCSV(s),
                            !.allPatientsClassified =
                                \A label \in values(loadExistingCSV(s)) : label # None],
                  rnd))
    ELSE updateButtonStates(
             [updateTable([Clear([s EXCEPT !.inRandomView = FALSE,
                                           !.randomPatientsList = <<>>,
                                           !.currentRandomPatientIndex = 0])
                              EXCEPT !.currentPatientID = <<>>,
                                     !.tableSelectable = TRUE])
                 EXCEPT !.nextEnabled = FALSE])

\* ------------------------------------------------------------------------
\* ClassAnnotationWidget: the handlers
\* ------------------------------------------------------------------------

RECURSIVE duplicateOf(_, _, _)
\* the loop of tryLoadPatient over the hashes of the ledger (lines 875-880):
\* TRUE when another patient has the hash set of this one
duplicateOf(patientHashesFromCSV, patientID, hashSet) ==
    IF patientHashesFromCSV = <<>> THEN FALSE
    ELSE LET existingID == Head(patientHashesFromCSV).pid
             existingHashStr == Head(patientHashesFromCSV).hash
         IN  IF existingID = patientID \/ existingHashStr = <<>>
             THEN duplicateOf(Tail(patientHashesFromCSV), patientID, hashSet)
             ELSE IF hashSet = {existingHashStr} THEN TRUE
             ELSE duplicateOf(Tail(patientHashesFromCSV), patientID, hashSet)

\* clearPreviousPatientNodes and self.currentPatientID = "" (lines 893-894)
clearPreviousPatient(s) ==
    IF s.exc THEN s
    ELSE [s EXCEPT !.loadedPatients = FALSE, !.currentPatientID = <<>>]

\* lines 896-898 of tryLoadPatient
tryLoadPatientNext(s) ==
    IF s.exc THEN s
    ELSE IF ~(s.manualReviewMode \/ s.inRandomView \/ s.fromOverviewSelection)
    THEN loadNextPatient(s)
    ELSE s

\* lines 887-898 of tryLoadPatient: the patient is a duplicate
tryLoadPatientDuplicate(s, patientID) ==
    tryLoadPatientNext(clearPreviousPatient(Clear(updateTable(saveClassificationData(
        [s EXCEPT !.classificationData = put(@, patientID, DUPLICATE)])))))

\* lines 859-901 of tryLoadPatient: s is the state loadPatientImages left
tryLoadPatientLoaded(s, patientID) ==
    IF ~s.loadedPatients THEN [s EXCEPT !.currentPatientID = <<>>]
    ELSE IF loadHashesFromCSVRaises(s) THEN Raise([s EXCEPT !.currentPatientID = patientID])
    ELSE IF duplicateOf(loadHashesFromCSV(s), patientID,
                        Range(compute_patient_hashes(
                            findOriginalFile(s.datasetPath, patientID,
                                             isHierarchicalDataset(s.datasetPath)))))
    THEN tryLoadPatientDuplicate([s EXCEPT !.currentPatientID = patientID], patientID)
    ELSE updateTable([s EXCEPT !.currentPatientID = patientID])

\* except Exception handles what the try block raises
tryLoadPatient(s, patientID, fileList) ==
    IF s.exc THEN s
    ELSE IF loadHashesFromCSVRaises(s) THEN Raise(s)
    ELSE Caught(tryLoadPatientLoaded(
             loadPatientImages([Clear(s) EXCEPT !.loadedPatients = FALSE], patientID, fileList),
             patientID))

\* the slot of classificationTable.itemSelectionChanged for the row of patientID
onPatientSelected(s, patientID, confirmation) ==
    IF s.exc THEN s
    ELSE IF listdirRaises(s.datasetPath) THEN Raise(s)
    ELSE IF getPatientFilesForReview(s.datasetPath, patientID, s.isHierarchical) = <<>> THEN s
    ELSE IF ~confirmation THEN s
    ELSE disableAllButtons(
             tryLoadPatient(Clear(s), patientID,
                            getPatientFilesForReview(s.datasetPath, patientID, s.isHierarchical)),
             FALSE)

\* lines 742-749 of onReviewPatientClicked
onReviewPatientClickedFiles(s, patientID, patientFiles) ==
    IF patientFiles # <<>>
    THEN disableAllButtons(
             loadPatientImages(updateTable(Clear([s EXCEPT !.manualReviewMode = TRUE])),
                               patientID, patientFiles),
             FALSE)
    ELSE s

\* lines 740-751 of onReviewPatientClicked
onReviewPatientClickedUnchecked(s, patientID) ==
    IF s.exc THEN s
    ELSE IF listdirRaises(s.datasetPath) THEN Raise(s)
    ELSE updateButtonStates(onReviewPatientClickedFiles(
             s, patientID,
             getPatientFilesForReview(s.datasetPath, patientID, s.isHierarchical)))

\* patientText "-" is the empty choice of the dropdown
onReviewPatientClicked(s, patientID) ==
    IF s.exc THEN s
    ELSE IF patientID = <<"-">> THEN s
    ELSE onReviewPatientClickedUnchecked(setCheckedFalse(s), patientID)

\* the LCD arithmetic of onClassifyImage (lines 1053-1059)
bumpLCDs(classLCDs, oldClass, classLabel) ==
    LET l1 == IF oldClass # None /\ oldClass \in DOMAIN classLCDs
              THEN [classLCDs EXCEPT ![oldClass] = Max2(0, @ - 1)]
              ELSE classLCDs
    IN  IF classLabel \in DOMAIN l1 THEN [l1 EXCEPT ![classLabel] = @ + 1] ELSE l1

\* lines 1053-1059 of onClassifyImage
updateClassLCDs(s, oldClass, classLabel) ==
    IF s.exc THEN s
    ELSE [s EXCEPT !.classLCDs = bumpLCDs(@, oldClass, classLabel)]

\* lines 1063-1066 of onClassifyImage
setAllPatientsClassified(s) ==
    IF s.exc THEN s
    ELSE [s EXCEPT !.allPatientsClassified =
             \A label \in values(s.classificationData) : label # None]

\* lines 1072-1078 of onClassifyImage
onClassifyImageNext(s, rnd) ==
    IF s.exc THEN s
    ELSE IF s.allPatientsClassified
    THEN IF s.checkBox
         THEN startRandomCheck(show(s, "All patients classified!"), rnd)
         ELSE show(s, "All patients classified!")
    ELSE loadNextPatient(s)

\* lines 1048-1080 of onClassifyImage: the classification is accepted
onClassifyImageAccepted(s, oldClass, classLabel, rnd) ==
    disableClassificationButtons(
        onClassifyImageNext(
            Clear(updateButtonStates(setAllPatientsClassified(
                populatePatientDropdown(updateTable(updateClassLCDs(
                    saveClassificationData(disableClassificationButtons(
                        [s EXCEPT !.classificationData =
                                      put(@, s.currentPatientID, classLabel),
                                  !.lastPid = s.currentPatientID,
                                  !.lastCls = classLabel],
                        TRUE)),
                    oldClass, classLabel)))))),
            rnd),
        FALSE)

\* a faulty onClassifyImage that accepts the class the ledger already records
onClassifyImageAgain(s, oldClass, classLabel, rnd) ==
    onClassifyImageAccepted(s, oldClass, classLabel, rnd)

\* lines 1044-1046 of onClassifyImage with oldClass, the class of the ledger
onClassifyImageOld(s, oldClass, classLabel, rnd) ==
    IF oldClass # None /\ oldClass = classLabel /\ ~s.manualReviewMode
    THEN show(s, "This patient is already classified as this class!")
    ELSE onClassifyImageAccepted(s, oldClass, classLabel, rnd)

\* a faulty onClassifyImage that does not test whether a patient is loaded
onClassifyImageUnchecked(s, classLabel, rnd) ==
    IF s.exc THEN s
    ELSE IF loadExistingCSVRaises(s) THEN Raise(s)
    ELSE onClassifyImageOld(s, get(loadExistingCSV(s), s.currentPatientID), classLabel, rnd)

\* lines 1036-1043 of onClassifyImage
onClassifyImageLoaded(s, classLabel, rnd) ==
    IF s.exc THEN s
    ELSE IF ~s.loadedPatients \/ s.currentPatientID = <<>>
    THEN show(s, "Unable to classify: no patient is currently loaded.")
    ELSE IF loadExistingCSVRaises(s) THEN Raise(s)
    ELSE onClassifyImageOld(s, get(loadExistingCSV(s), s.currentPatientID), classLabel, rnd)

onClassifyImage(s, classLabel, rnd) ==
    IF s.exc THEN s
    ELSE IF ~s.loadedPatients
    THEN onClassifyImageLoaded(syncLoadedPatientFromViewer(s), classLabel, rnd)
    ELSE onClassifyImageLoaded(s, classLabel, rnd)

\* lines 431-444 of loadDataset
loadDatasetShow(s) ==
    syncLoadedPatientFromViewer(loadNextPatient(updateButtonStates(
        generateClassButtons(updateTable(updateLCDCounters(s))))))

\* lines 418-444 of loadDataset with the patients of the dataset
loadDatasetPatients(s, allPatientIDs) ==
    IF allPatientIDs = <<>> THEN s
    ELSE loadDatasetShow(
             [s EXCEPT !.allPatientsClassified =
                           \A pid \in Range(allPatientIDs) :
                               get(s.classificationData, pid) # None,
                       \* slicer.util.getNodesByClass('vtkMRMLScalarVolumeNode')
                       !.loadedPatients = IF ~@ THEN s.sceneVolume ELSE @,
                       !.buttonsInDict = FALSE,
                       !.classLCDs = <<>>])

\* lines 411-444 of loadDataset: isFlat and isHierarchical are set
loadDatasetStructure(s) ==
    IF s.isFlat /\ s.isHierarchical THEN s
    ELSE IF loadExistingCSVRaises(s) THEN Raise(s)
    ELSE loadDatasetPatients([s EXCEPT !.classificationData = loadExistingCSV(s)],
                             getAllPatientIDs(s.datasetPath))

loadDataset(s) ==
    IF s.exc THEN s
    ELSE IF s.datasetPath = "" THEN s
    ELSE loadDatasetStructure([s EXCEPT !.isFlat = isFlatDataset(s.datasetPath),
                                        !.isHierarchical = isHierarchicalDataset(s.datasetPath)])

\* lines 547-555
defaultNumClasses(classificationData) ==
    LET existingClasses == {c \in values(classificationData) : c # None /\ isClass(c)}
        maxClass == IF classificationData # <<>> /\ existingClasses # {}
                    THEN CHOOSE c \in existingClasses : \A k \in existingClasses : k <= c
                    ELSE 4
    IN  Max2(defaultNumClassesFloor, maxClass + 1)

\* lines 558-613 of onLoadDatasetClicked: the class count is set
onLoadDatasetClickedCounted(s) ==
    IF s.exc THEN s
    ELSE IF countPatientsPerClassFromCSVRaises(s) THEN Raise(s)
    ELSE updateButtonStates(populatePatientDropdown(displayClassCounters(
             generateClassButtons(s))))

\* lines 536-613 of onLoadDatasetClicked with the patients of the dataset
onLoadDatasetClickedPatients(s, allPatientIDs) ==
    IF Len(allPatientIDs) = 0 THEN s
    ELSE onLoadDatasetClickedCounted(setClassCount(
             [s EXCEPT !.allPatientsClassified =
                 /\ s.classificationData # <<>>
                 /\ \A pid \in Range(allPatientIDs) :
                      get(s.classificationData, pid) # None],
             defaultNumClasses(s.classificationData)))

\* lines 502-613 of onLoadDatasetClicked: s is the state loadDataset left
onLoadDatasetClickedLoaded(s) ==
    IF s.exc THEN s
    ELSE IF isFlatDataset(s.datasetPath) /\ isHierarchicalDataset(s.datasetPath)
    THEN disableAllButtons([s EXCEPT !.loadedPatients = FALSE,
                                     !.randomPatientsList = <<>>,
                                     !.currentRandomPatientIndex = 0,
                                     !.isFlat = TRUE,
                                     !.isHierarchical = TRUE],
                           TRUE)
    ELSE IF loadExistingCSVRaises(s)
    THEN Raise([s EXCEPT !.loadedPatients = FALSE,
                         !.randomPatientsList = <<>>,
                         !.currentRandomPatientIndex = 0,
                         !.isFlat = isFlatDataset(s.datasetPath),
                         !.isHierarchical = isHierarchicalDataset(s.datasetPath)])
    ELSE onLoadDatasetClickedPatients(
             [s EXCEPT !.loadedPatients = FALSE,
                       !.randomPatientsList = <<>>,
                       !.currentRandomPatientIndex = 0,
                       !.isFlat = isFlatDataset(s.datasetPath),
                       !.isHierarchical = isHierarchicalDataset(s.datasetPath),
                       !.classificationData = loadExistingCSV(s)],
             getAllPatientIDs(s.datasetPath))

\* lines 489-613 of onLoadDatasetClicked: the folder is picked
onLoadDatasetClickedPicked(s) ==
    IF s.mode = ADVANCED_MODE /\ s.outputPath = NonePath THEN s
    ELSE onLoadDatasetClickedLoaded(loadDataset(s))

\* confirm: Yes in the message box; datasetPath: the folder picked, "" for none
onLoadDatasetClicked(s, confirm, datasetPath) ==
    IF s.exc THEN s
    ELSE IF ~confirm THEN s
    ELSE IF datasetPath = ""
    THEN [updateTable(Clear(resetModuleState(s))) EXCEPT !.currentPatientID = <<>>]
    ELSE onLoadDatasetClickedPicked(
             [updateTable(Clear(resetModuleState(s)))
                 EXCEPT !.currentPatientID = <<>>, !.datasetPath = datasetPath])

setModeAndLoad(s, mode, confirm, datasetPath) ==
    onLoadDatasetClicked([s EXCEPT !.mode = mode, !.logicMode = mode], confirm, datasetPath)

\* outputPath: the folder picked, "" for none
onSelectOutputFolderClicked(s, outputPath) ==
    IF s.exc THEN s
    ELSE IF outputPath = "" THEN s
    ELSE IF s.datasetPath # "" /\ s.mode = ADVANCED_MODE
    THEN updateButtonStates(loadDataset([s EXCEPT !.outputPath = outputPath]))
    ELSE updateButtonStates([s EXCEPT !.outputPath = outputPath])

\* ------------------------------------------------------------------------
\* The state
\* ------------------------------------------------------------------------

\* the disk: the ledger file and the patient folders below <base>/output
VARIABLES ledger, folders

\* the attributes of ClassAnnotationWidget and of its logic (logicMode)
VARIABLES datasetPath, outputPath, mode, logicMode, isFlat, isHierarchical,
          classificationData, loadedPatients, sceneVolume, currentPatientID,
          manualReviewMode, inRandomView, allPatientsClassified,
          randomPatientsList, currentRandomPatientIndex, numCasesPerClass,
          fromOverviewSelection

\* the widgets of self.ui: classCountInput, the class buttons in the layout and
\* in self.classButtons, the LCDs, the enabled flags, the check box, the table,
\* the dropdown and casesInput
VARIABLES classCount, layoutButtons, buttonsInDict, buttonsEnabled, classLCDs,
          uiEnabled, reviewEnabled, nextEnabled, checkBox, tableRows,
          tableSelectable, dropdown, casesInput

\* what the last handler did: whether it was onClassCountChanged, the patient
\* and the class of the classification it accepted, the save it completed and
\* whether an exception left it
VARIABLES countChanged, lastPid, lastCls, saved, escaped

\* how often the session has changed the mode
VARIABLES modeChanges

\* the texts of the dialogs the last handler showed
VARIABLES shown

vars == <<ledger, folders, datasetPath, outputPath, mode, logicMode, isFlat,
          isHierarchical, classificationData, loadedPatients, sceneVolume,
          currentPatientID, manualReviewMode, inRandomView,
          allPatientsClassified, randomPatientsList,
          currentRandomPatientIndex, numCasesPerClass, fromOverviewSelection,
          classCount, layoutButtons, buttonsInDict, buttonsEnabled,
          classLCDs, uiEnabled, reviewEnabled, nextEnabled, checkBox,
          tableRows, tableSelectable, dropdown, casesInput, countChanged,
          lastPid, lastCls, saved, escaped, modeChanges, shown>>

NoSave == [ok |-> FALSE, base |-> "", dataset |-> ""]

\* the state as the record the handlers work on, at the start of the handler op
Begin(op) ==
    [ledger |-> ledger, folders |-> folders, datasetPath |-> datasetPath,
     outputPath |-> outputPath, mode |-> mode, logicMode |-> logicMode,
     isFlat |-> isFlat, isHierarchical |-> isHierarchical,
     classificationData |-> classificationData,
     loadedPatients |-> loadedPatients, sceneVolume |-> sceneVolume,
     currentPatientID |-> currentPatientID,
     manualReviewMode |-> manualReviewMode, inRandomView |-> inRandomView,
     allPatientsClassified |-> allPatientsClassified,
     randomPatientsList |-> randomPatientsList,
     currentRandomPatientIndex |-> currentRandomPatientIndex,
     numCasesPerClass |-> numCasesPerClass,
     fromOverviewSelection |-> fromOverviewSelection,
     classCount |-> classCount, layoutButtons |-> layoutButtons,
     buttonsInDict |-> buttonsInDict, buttonsEnabled |-> buttonsEnabled,
     classLCDs |-> classLCDs, uiEnabled |-> uiEnabled,
     reviewEnabled |-> reviewEnabled, nextEnabled |-> nextEnabled,
     checkBox |-> checkBox, tableRows |-> tableRows,
     tableSelectable |-> tableSelectable, dropdown |-> dropdown,
     casesInput |-> casesInput,
     countChanged |-> op = "onClassCountChanged", lastPid |-> <<>>, lastCls |-> None, saved |-> NoSave,
     escaped |-> FALSE, modeChanges |-> modeChanges, shown |-> {}, exc |-> FALSE,
     rndUsed |-> "no"]

\* the state the handler leaves
Commit(t) ==
    /\ ledger' = t.ledger
    /\ folders' = t.folders
    /\ datasetPath' = t.datasetPath
    /\ outputPath' = t.outputPath
    /\ mode' = t.mode
    /\ logicMode' = t.logicMode
    /\ isFlat' = t.isFlat
    /\ isHierarchical' = t.isHierarchical
    /\ classificationData' = t.classificationData
    /\ loadedPatients' = t.loadedPatients
    /\ sceneVolume' = t.sceneVolume
    /\ currentPatientID' = t.currentPatientID
    /\ manualReviewMode' = t.manualReviewMode
    /\ inRandomView' = t.inRandomView
    /\ allPatientsClassified' = t.allPatientsClassified
    /\ randomPatientsList' = t.randomPatientsList
    /\ currentRandomPatientIndex' = t.currentRandomPatientIndex
    /\ numCasesPerClass' = t.numCasesPerClass
    /\ fromOverviewSelection' = t.fromOverviewSelection
    /\ classCount' = t.classCount
    /\ layoutButtons' = t.layoutButtons
    /\ buttonsInDict' = t.buttonsInDict
    /\ buttonsEnabled' = t.buttonsEnabled
    /\ classLCDs' = t.classLCDs
    /\ uiEnabled' = t.uiEnabled
    /\ reviewEnabled' = t.reviewEnabled
    /\ nextEnabled' = t.nextEnabled
    /\ checkBox' = t.checkBox
    /\ tableRows' = t.tableRows
    /\ tableSelectable' = t.tableSelectable
    /\ dropdown' = t.dropdown
    /\ casesInput' = t.casesInput
    /\ countChanged' = t.countChanged
    /\ lastPid' = t.lastPid
    /\ lastCls' = t.lastCls
    /\ saved' = t.saved
    /\ escaped' = t.escaped
    /\ modeChanges' = t.modeChanges
    /\ shown' = t.shown

Init ==
    /\ ledger = [b \in Bases |-> NoFile]
    /\ folders = [b \in Bases |-> {}]
    /\ datasetPath = ""
    /\ outputPath = NonePath
    /\ mode = STANDARD_MODE
    /\ logicMode = STANDARD_MODE
    /\ isFlat = FALSE
    /\ isHierarchical = FALSE
    /\ classificationData = <<>>
    /\ loadedPatients = FALSE
    /\ sceneVolume = FALSE
    /\ currentPatientID = <<>>
    /\ manualReviewMode = FALSE
    /\ inRandomView = FALSE
    /\ allPatientsClassified = FALSE
    /\ randomPatientsList = <<>>
    /\ currentRandomPatientIndex = 0
    /\ numCasesPerClass = defaultNumCases
    /\ fromOverviewSelection = FALSE
    /\ classCount = InitClassCount
    /\ layoutButtons = 0
    /\ buttonsInDict = FALSE
    /\ buttonsEnabled = FALSE
    /\ classLCDs = <<>>
    /\ uiEnabled = FALSE
    /\ reviewEnabled = FALSE
    /\ nextEnabled = FALSE
    /\ checkBox = FALSE
    /\ tableRows = {}
    /\ tableSelectable = TRUE
    /\ dropdown = {}
    /\ casesInput = "5"
    /\ countChanged = FALSE
    /\ lastPid = <<>>
    /\ lastCls = None
    /\ saved = NoSave
    /\ escaped = FALSE
    /\ modeChanges = 0
    /\ shown = {}

\* ------------------------------------------------------------------------
\* The inputs of the handlers
\* ------------------------------------------------------------------------

\* the orders random.sample and random.shuffle can put the patients K in
Perms(K) ==
    {f \in [1..Cardinality(K) -> K] : \A i, j \in 1..Cardinality(K) : f[i] = f[j] => i = j}

\* the handler drew its random order from rnd, or drew none and rnd is the sorted one
RndChoice(t, rnd, K) == t.rndUsed = "ok" \/ (t.rndUsed = "no" /\ rnd = SortedSeqOf(K))

\* the handler leaves the state t, with rnd one of the orders of K it can draw
Done(t, rnd, K) == RndChoice(t, rnd, K) /\ Commit(t)

\* the patients a review started by a class button can draw from
ReviewPatients == classifiedIn(classificationData) \cup {currentPatientID}

\* the patients a review started by the check box of s can draw from
LedgerPatients(s) ==
    IF s.checkBox /\ ~loadExistingCSVRaises(s)
    THEN classifiedIn(loadExistingCSV(s))
    ELSE {}

\* ------------------------------------------------------------------------
\* The actions: one per slot the host calls
\* ------------------------------------------------------------------------

\* loadButton (standard) or loadButton_advanced clicked; the user picks a
\* folder of paths or cancels one of the two dialogs
SetModeAndLoadOf(modes, paths) ==
    \E m \in modes, confirm \in BOOLEAN, path \in {""} \cup paths :
        /\ ~confirm => path = ""
        /\ m # mode => modeChanges < MaxModeChanges
        /\ Commit(Slot(setModeAndLoad(
               [Begin("setModeAndLoad") EXCEPT !.modeChanges = IF m # mode THEN @ + 1 ELSE @],
               m, confirm, path)))

\* loadButton_output clicked
SelectOutputFolder ==
    \E path \in {""} \cup OutputPaths :
        Commit(Slot(onSelectOutputFolderClicked(Begin("onSelectOutputFolderClicked"), path)))

\* a class button of the layout clicked
ClassifyImage ==
    \E classLabel \in {0, MaxClickLabel} \cap (0..(layoutButtons - 1)) :
        /\ buttonsEnabled
        /\ classLabel \in DOMAIN classLCDs => classLCDs[classLabel] < MaxLcd
        /\ \E rnd \in (IF checkBox THEN Perms(ReviewPatients) ELSE {SortedSeqOf(ReviewPatients)}) :
               Done(Slot(onClassifyImage(Begin("onClassifyImage"), classLabel, rnd)),
                    rnd, ReviewPatients)

\* generateClassesButton clicked
GenerateClassButtons ==
    /\ uiEnabled
    /\ Commit(Slot(generateClassButtons(Begin("generateClassButtons"))))

\* the user changes the value of classCountInput
ClassCountChanged ==
    \E v \in minRequiredClassesDefault..MaxCountInput :
        /\ uiEnabled
        /\ v # classCount
        /\ Commit(Slot(onClassCountChanged([Begin("onClassCountChanged") EXCEPT !.classCount = v])))

\* the user toggles the random-review check box
CheckToggled ==
    /\ uiEnabled
    /\ \E rnd \in Perms(LedgerPatients([Begin("onCheckToggled") EXCEPT !.checkBox = ~checkBox])) :
           Done(Slot(onCheckToggled([Begin("onCheckToggled") EXCEPT !.checkBox = ~checkBox],
                                    ~checkBox, rnd)),
                rnd, LedgerPatients([Begin("onCheckToggled") EXCEPT !.checkBox = ~checkBox]))

\* reviewButton clicked with a patient of the dropdown, or with "-"
ReviewPatientClicked ==
    \E patientID \in {<<"-">>} \cup (IF uiEnabled THEN dropdown ELSE {}) :
        /\ reviewEnabled
        /\ Commit(Slot(onReviewPatientClicked(Begin("onReviewPatientClicked"), patientID)))

\* nextPatientButton clicked
LoadNextRandomPatient ==
    /\ nextEnabled
    /\ Commit(Slot(onLoadNextRandomPatient(Begin("onLoadNextRandomPatient"))))

\* the user selects a row of the classification table and answers the question
PatientSelected ==
    \E patientID \in tableRows, confirmation \in BOOLEAN :
        /\ tableSelectable
        /\ Commit(Slot(onPatientSelected(Begin("onPatientSelected"), patientID, confirmation)))

\* the user types a text into casesInput
CasesInputEdited ==
    \E text \in {"", "1", "0", "x"} :
        /\ uiEnabled
        /\ text # casesInput
        /\ Commit([Begin("casesInput") EXCEPT !.casesInput = text])

\* ------------------------------------------------------------------------
\* A session in standard mode on the dataset DH
\* ------------------------------------------------------------------------

Next ==
    \/ SetModeAndLoadOf({STANDARD_MODE}, {"DH"})
    \/ ClassifyImage
    \/ GenerateClassButtons
    \/ ClassCountChanged
    \/ CheckToggled
    \/ ReviewPatientClicked
    \/ LoadNextRandomPatient
    \/ PatientSelected

Spec == Init /\ [][Next]_vars

\* ------------------------------------------------------------------------
\* A session that switches between the two modes on the dataset DD
\* ------------------------------------------------------------------------

NextModes ==
    \/ SetModeAndLoadOf({STANDARD_MODE, ADVANCED_MODE}, {"DD"})
    \/ SelectOutputFolder
    \/ ClassifyImage
    \/ PatientSelected

SpecModes == Init /\ [][NextModes]_vars

\* ------------------------------------------------------------------------
\* A session on the mixed dataset DM
\* ------------------------------------------------------------------------

NextMixed ==
    \/ SetModeAndLoadOf({STANDARD_MODE, ADVANCED_MODE}, {"DM"})
    \/ SelectOutputFolder
    \/ ClassifyImage
    \/ GenerateClassButtons
    \/ ClassCountChanged
    \/ CheckToggled
    \/ ReviewPatientClicked
    \/ LoadNextRandomPatient
    \/ PatientSelected

SpecMixed == Init /\ [][NextMixed]_vars

\* ------------------------------------------------------------------------
\* A session in standard mode on the dataset DE with a folder without images
\* and on the flat dataset DF
\* ------------------------------------------------------------------------

NextReview ==
    \/ SetModeAndLoadOf({STANDARD_MODE}, {"DE", "DF"})
    \/ ClassifyImage
    \/ CheckToggled
    \/ LoadNextRandomPatient
    \/ CasesInputEdited

SpecReview == Init /\ [][NextReview]_vars

\* ------------------------------------------------------------------------
\* What the handlers leave behind
\* ------------------------------------------------------------------------

\* the folder whose output folder holds the ledger of the current mode
LedgerBase == saveCsvFilePath(logicMode, datasetPath, outputPath)[1]

\* the rows of the ledger below base
RowsOf(base) == ledger[base].rows

\* the ledger below base has a row for pid with the Class cell
HasRow(base, pid, cell) ==
    \E i \in 1..Len(RowsOf(base)) : RowsOf(base)[i].pid = pid /\ RowsOf(base)[i].cls = cell

\* the names of the original files of patient pid of the dataset
OriginalNames(dataset, pid) ==
    {f.name : f \in Range(findOriginalFile(dataset, pid, isHierarchicalDataset(dataset)))}

\* the classes assigned in classificationData
AssignedClasses == {c \in values(classificationData) : isClass(c)}

\* C1: when onClassifyImage accepts class lastCls for the current patient
\* lastPid, then at the return of the handler the ledger of the current mode
\* has a row for lastPid whose Class is lastCls, and classificationData maps
\* lastPid to lastCls.
C1_AcceptedClassIsRecorded ==
    lastPid # <<>> =>
        /\ get(classificationData, lastPid) = lastCls
        /\ LedgerBase \in Bases
        /\ HasRow(LedgerBase, lastPid, ClassCell(lastCls))

\* the handler accepted the last class for a patient and recorded it, while
\* another patient holds class 0
C1_AcceptedLastClass ==
    /\ lastPid # <<>>
    /\ lastCls = MaxClickLabel
    /\ HasRow(LedgerBase, lastPid, ClassCell(MaxClickLabel))
    /\ \E pid \in keys(classificationData) : pid # lastPid /\ get(classificationData, pid) = 0

\* C2: every ledger file has the header Patient ID, Class, Hash; its rows are
\* in strictly ascending order of patient ID; each Class cell is a
\* non-negative integer, empty or DUPLICATE; a Hash is non-empty only on a
\* row with an integer Class; and the ledger a handler saved has exactly one
\* row per patient of classificationData.
C2_LedgerWellFormed ==
    /\ \A base \in Bases :
           ledger[base].exists =>
               /\ ledger[base].header = CSV_HEADER
               /\ \A i \in 1..(Len(RowsOf(base)) - 1) :
                      StrLess(RowsOf(base)[i].pid, RowsOf(base)[i + 1].pid)
               /\ \A i \in 1..Len(RowsOf(base)) :
                      /\ \/ isdigit(RowsOf(base)[i].cls)
                         \/ RowsOf(base)[i].cls \in {"", "DUPLICATE"}
                      /\ RowsOf(base)[i].hash # <<>> => isdigit(RowsOf(base)[i].cls)
    /\ saved.ok =>
           /\ {RowsOf(saved.base)[i].pid : i \in 1..Len(RowsOf(saved.base))}
                  = keys(classificationData)
           /\ Len(RowsOf(saved.base)) = Len(classificationData)

\* a saved ledger with an integer row that has a hash, a DUPLICATE row and an
\* empty row
C2_ThreeKindsOfRows ==
    /\ saved.ok
    /\ \E i, j, k \in 1..Len(RowsOf(saved.base)) :
           /\ isdigit(RowsOf(saved.base)[i].cls) /\ RowsOf(saved.base)[i].hash # <<>>
           /\ RowsOf(saved.base)[j].cls = "DUPLICATE"
           /\ RowsOf(saved.base)[k].cls = ""

HashOf(pid) ==
    JoinHashes(compute_patient_hashes(
        findOriginalFile(datasetPath, pid, isHierarchicalDataset(datasetPath))))

\* C4: a patient folder exists under output/class<N> if and only if the
\* ledger of that output folder records the patient with class N; with one
\* row per patient, a reclassified patient is under its new class only.
C4_FoldersMatchLedger ==
    \A base \in Bases :
        /\ \A e \in folders[base] : HasRow(base, e.pid, ClassCell(e.cls))
        /\ \A i \in 1..Len(RowsOf(base)) :
               isdigit(RowsOf(base)[i].cls) =>
                   folderExists(folders[base], int(RowsOf(base)[i].cls), RowsOf(base)[i].pid)

\* C5: no ledger gives integer classes to two patients with the same
\* non-empty hash, and the patient left loaded as the current one does not
\* have the hash the ledger records for another patient.
C5_DuplicatesAreSkipped ==
    /\ \A base \in Bases :
           \A i, j \in 1..Len(RowsOf(base)) :
               (/\ i # j
                /\ RowsOf(base)[i].hash # <<>>
                /\ RowsOf(base)[i].hash = RowsOf(base)[j].hash)
                   => ~(isdigit(RowsOf(base)[i].cls) /\ isdigit(RowsOf(base)[j].cls))
    /\ (currentPatientID # <<>> /\ loadedPatients /\ LedgerBase \in Bases) =>
           \A i \in 1..Len(RowsOf(LedgerBase)) :
               (/\ RowsOf(LedgerBase)[i].pid # currentPatientID
                /\ RowsOf(LedgerBase)[i].hash # <<>>)
                   => RowsOf(LedgerBase)[i].hash # HashOf(currentPatientID)

\* C6: while the loaded dataset is both flat and hierarchical, none of its
\* patients is the current patient, none has a class and no ledger exists.
C6_MixedDatasetIsBlocked ==
    (isFlatDataset(datasetPath) /\ isHierarchicalDataset(datasetPath)) =>
        /\ currentPatientID = <<>>
        /\ AssignedClasses = {}
        /\ \A base \in Bases : ~ledger[base].exists

\* C7: for the mode, dataset path and output path of every reachable state,
\* loadExistingCSV, countPatientsPerClassFromCSV, loadHashesFromCSV and
\* saveClassificationData address the same file:
\* <dataset>/output/classification_results.csv in standard mode and
\* <outputPath>/output/classification_results.csv in advanced mode; a save
\* the last handler completed wrote below that folder.
C7_OneLedgerPerMode ==
    /\ \A path \in {loadExistingCsvFilePath(logicMode, datasetPath, outputPath),
                    countCsvFilePath(logicMode, datasetPath, outputPath),
                    hashesCsvPath(logicMode, datasetPath, outputPath),
                    saveCsvFilePath(logicMode, datasetPath, outputPath)} :
           path = <<IF logicMode = "standard" THEN datasetPath ELSE outputPath,
                    "output", "classification_results.csv">>
    /\ saved.ok => saved.base = IF logicMode = "standard" THEN datasetPath ELSE outputPath

\* a save in advanced mode wrote the ledger below the output folder, after a
\* save in standard mode had written the one below the dataset
C7_BothLedgersWritten ==
    /\ logicMode = ADVANCED_MODE
    /\ saved.ok
    /\ saved.base = "O"
    /\ ledger["O"].exists
    /\ ledger[datasetPath].exists

\* C8: no handler lets an exception propagate to the host.
C8_NoExceptionEscapes == ~escaped

\* C9: when onClassCountChanged returns, the class count is at least
\* max(2, highest assigned class + 1).
C9_CountAtLeastMinimum ==
    countChanged =>
        /\ classCount >= 2
        /\ \A c \in AssignedClasses : classCount >= c + 1

\* C10: every integer class of a ledger is one of 0..classCount-1.
C10_LedgerClassesAreConfigured ==
    \A base \in Bases :
        \A i \in 1..Len(RowsOf(base)) :
            isdigit(RowsOf(base)[i].cls) => int(RowsOf(base)[i].cls) < classCount

\* no patient is loaded: currentPatientID is empty, or loadedPatients is empty
\* and the viewer shows no volume to recover
NoPatientLoaded == currentPatientID = <<>> \/ (~loadedPatients /\ ~sceneVolume)

\* C11: a click on a class button while no patient is loaded shows the error
\* "Unable to classify: no patient is currently loaded." and leaves
\* classificationData, the ledgers, the output folders and the LCD counters
\* as they were.
C11_NoPatientNoChange ==
    [][(ClassifyImage /\ NoPatientLoaded) =>
           /\ "Unable to classify: no patient is currently loaded." \in shown'
           /\ UNCHANGED <<classificationData, ledger, folders, classLCDs>>]_vars

\* the error was shown by a click made after a classification had been saved
C11_ErrorAfterSave ==
    /\ "Unable to classify: no patient is currently loaded." \in shown
    /\ NoPatientLoaded
    /\ classifiedIn(classificationData) # {}
    /\ \E base \in Bases : ledger[base].exists

\* C12: outside manual review mode, a click on the class that the ledger of
\* the current mode already records for the loaded current patient shows the
\* error "This patient is already classified as this class!" and leaves
\* classificationData, the ledgers, the output folders, the LCD counters and
\* the current patient as they were.
C12_SameClassIsRejected ==
    [][\A classLabel \in {0, MaxClickLabel} :
           (/\ ~NoPatientLoaded
            /\ ~manualReviewMode
            /\ LedgerBase \in Bases
            /\ HasRow(LedgerBase, currentPatientID, ClassCell(classLabel))
            /\ buttonsEnabled
            /\ classLabel < layoutButtons
            /\ \E rnd \in Perms(ReviewPatients) :
                   Done(Slot(onClassifyImage(Begin("onClassifyImage"), classLabel, rnd)),
                        rnd, ReviewPatients))
               => /\ "This patient is already classified as this class!" \in shown'
                  /\ UNCHANGED <<classificationData, ledger, folders, classLCDs,
                                 currentPatientID>>]_vars

\* the error was shown for a loaded patient whose class the ledger records
C12_RejectedClick ==
    /\ "This patient is already classified as this class!" \in shown
    /\ ~NoPatientLoaded
    /\ ~manualReviewMode
    /\ \E classLabel \in {0, MaxClickLabel} :
           HasRow(LedgerBase, currentPatientID, ClassCell(classLabel))

\* C13: when a handler has returned, every class LCD shows the number of
\* rows of the ledger of the current mode that have its class.
C13_LCDsShowLedgerCounts ==
    LedgerBase \in Bases =>
        \A c \in DOMAIN classLCDs :
            classLCDs[c] = Cardinality({i \in 1..Len(RowsOf(LedgerBase)) :
                                          RowsOf(LedgerBase)[i].cls = ClassCell(c)})

\* C14: loadNextPatient announces "All patients classified!" only when no
\* patient of classificationData is unclassified; and when onClassifyImage
\* has accepted a class and called it with unclassified patients left, it
\* returns with the first unclassified patient that is no duplicate loaded as
\* the current patient.
C14_NextPatientOrAllClassified ==
    /\ "All patients classified!" \in shown => None \notin values(classificationData)
    /\ (lastPid # <<>> /\ ~escaped /\ None \in values(classificationData)) =>
           /\ loadedPatients
           /\ currentPatientID = Head(unclassifiedOf(classificationData))

\* C15: when the random-review box is checked while patients are unclassified
\* and a class button click or a table selection leaves no patient of the
\* dataset unclassified (the last one is classified or marked DUPLICATE), the
\* handler returns with the random review started.
C15_ReviewStartsAtTheEnd ==
    [][(/\ ClassifyImage \/ PatientSelected
        /\ checkBox
        /\ None \in values(classificationData)
        /\ datasetPath' = datasetPath
        /\ classificationData' # <<>>
        /\ None \notin values(classificationData'))
           => /\ inRandomView'
              /\ randomPatientsList' # <<>>]_vars

\* the patients the ledger of the current mode records with class c
PatientsOfClass(c) ==
    {RowsOf(LedgerBase)[i].pid :
        i \in {j \in 1..Len(RowsOf(LedgerBase)) : RowsOf(LedgerBase)[j].cls = ClassCell(c)}}

C17_CasesPerClassIsPositive ==
    /\ numCasesPerClass > 0
    /\ "Invalid number of cases per class! Using default (5)" \in shown =>
           numCasesPerClass = 5 /\ casesInput = "5"
    /\ (inRandomView /\ casesInput = "") => numCasesPerClass = 5

\* C18: while a flat dataset is loaded, getPatientFilesForReview gives
\* disjoint file sets for two distinct patient IDs of getAllPatientIDs, and
\* so does findOriginalFile; and every image file is in both file sets of the
\* patient ID getAllPatientIDs derives from its name.
C18_FlatFileSetsAreDisjoint ==
    (/\ datasetPath \in DatasetPaths
     /\ isFlatDataset(datasetPath)
     /\ ~isHierarchicalDataset(datasetPath)) =>
        /\ \A p, q \in Range(getAllPatientIDs(datasetPath)) :
               p # q =>
                   /\ Range(getPatientFilesForReview(datasetPath, p, FALSE))
                          \cap Range(getPatientFilesForReview(datasetPath, q, FALSE)) = {}
                   /\ Range(findOriginalFile(datasetPath, p, FALSE))
                          \cap Range(findOriginalFile(datasetPath, q, FALSE)) = {}
        /\ \A i \in 1..Len(Disk(datasetPath).top) :
               isSupported(Disk(datasetPath).top[i]) =>
                   /\ PathOf(<<>>, Disk(datasetPath).top[i])
                          \in Range(getPatientFilesForReview(
                                        datasetPath, splitFirst(Disk(datasetPath).top[i].name), FALSE))
                   /\ PathOf(<<>>, Disk(datasetPath).top[i])
                          \in Range(findOriginalFile(
                                        datasetPath, splitFirst(Disk(datasetPath).top[i].name), FALSE))

====
